---- MODULE Spec2Model ----
(***************************************************************************)
(* MCP client (client.py) and the provider it spawns (server.py).          *)
(*                                                                         *)
(* Text is modelled as a sequence of characters.  The source's Chinese     *)
(* literals are written in ASCII, one string per character:                *)
(*   "bei" "jing"   the two characters of the locality keyword (Beijing)   *)
(*   "jing3" "dian" the two characters of the topic keyword (sights)       *)
(*   "lv" "you"     the two characters of the topic keyword (travel)       *)
(* Fixed literals of the source that are never searched are one element:   *)
(*   "TPL"  the text of the prompt template before {city_info}             *)
(*   "SEP"  the separator "\n\n<user question>:\n\n" of client.py:88       *)
(***************************************************************************)
EXTENDS Integers, Sequences, FiniteSets, TLC

\* ------------------------------------------------------------------ bounds
MaxQueryLen == 4
MaxToolCalls == 2
MaxRequests == 2
MaxCleanups == 3
MaxTools == 2

\* ------------------------------------------------------------- text helpers
Chars == {"bei", "jing", "jing3", "dian", "lv", "you"}

\* Python's `sub in s` for str: sub occurs as a contiguous slice of s.
Contains(s, sub) ==
    \E i \in 1..(Len(s) - Len(sub) + 1) : SubSeq(s, i, i + Len(sub) - 1) = sub

BJIndicators == { <<"bei", "jing">> }
TouristIndicators == { <<"jing3", "dian">>, <<"lv", "you">> }

isBJ(q) == \E indicator \in BJIndicators : Contains(q, indicator)
isTourist(q) == \E indicator \in TouristIndicators : Contains(q, indicator)

\* client.py:74, the rule that triggers augmentation
RuleMatchesEither(q) == isBJ(q) \/ isTourist(q)
RuleMatches(q) == isBJ(q) /\ isTourist(q)

resources_uri == "city-tourist-doc://Beijing/city-tourist.md"
template_name == "top_beijing_tourist_spots"
Separator == <<"SEP">>

\* server.py:46-47
top_beijing_tourist_spots(city_info_) == <<"TPL">> \o city_info_

\* client.py:88
EnhancedQueryFirst(prompt_text, q) == q \o Separator \o prompt_text
EnhancedQuery(prompt_text, q) == prompt_text \o Separator \o q

\* server.py:57-62: the document's text, or the failure text the helper
\* returns in place of an exception when the file cannot be opened.
DocText == <<"doc">>
ReadFailedText == <<"read_failed">>
_read_file_content(readable) == IF readable THEN DocText ELSE ReadFailedText

\* server.py:19-22
city_tourist(readable) == _read_file_content(readable)

AllQueries == UNION { [1..n -> Chars] : n \in 0..MaxQueryLen }

\* Queries typed at the prompt of chat_loop: one that matches the rule, one
\* that matches a single predicate only, and one that matches none.
TypedQueries ==
    { <<"bei", "jing", "jing3", "dian">>, <<"bei", "jing">>, <<"you">> }

\* ------------------------------------------------------- model backend data
ToolCallIds == {"call_a", "call_b"}
ToolNames == {"get_current_weather"}
\* arguments text of a ToolCall: a JSON object, or text json.loads rejects
ArgTexts == {"{}", "{"}
AssistantContents == { <<"answer">>, <<"draft">> }

\* json.loads (client.py:134): the parsed value, or a raise
JsonParses(text) == text = "{}"
JsonLoads(text) == IF text = "{}" THEN "dict()" ELSE "JSONDecodeError"

ToolCalls == [id : ToolCallIds, name : ToolNames, arguments : ArgTexts]
ToolCallSeqs == UNION { [1..n -> ToolCalls] : n \in 0..MaxToolCalls }

\* text of a tool's result (result.content[0].text, client.py:144)
ToolResultText(outcome) ==
    IF outcome = "ok" THEN <<"result">> ELSE <<"tool_error">>

Msg(role, content, tool_call_id, tool_calls) ==
    [role |-> role, content |-> content,
     tool_call_id |-> tool_call_id, tool_calls |-> tool_calls]
UserMsg(content) == Msg("user", content, "none", <<>>)
AssistantMsg(content, tool_calls) == Msg("assistant", content, "none", tool_calls)
ToolMsg(content, tool_call_id) == Msg("tool", content, tool_call_id, <<>>)

\* client.py:92-103 applied to the provider's tool list (server.py:27-40)
ListedTools ==
    << [name |-> "get_current_weather", description |-> "weather",
        inputSchema |-> "schema_location"],
       [name |-> "get_current_time", description |-> "time",
        inputSchema |-> "None"] >>
\* tool descriptors a provider may list (tool.name, tool.description,
\* tool.inputSchema of client.py:98-100); the schema may be None or empty
ListableNames == {"get_current_weather", "get_current_time"}
Descriptions == {"weather", "time"}
InputSchemas == {"None", "{}", "schema_location"}
ToolDescriptors ==
    [name : ListableNames, description : Descriptions,
     inputSchema : InputSchemas]
ToolListings == UNION { [1..n -> ToolDescriptors] : n \in 0..MaxTools }

tools_to_openai_functionsPassThrough(tools) ==
    [i \in 1..Len(tools) |->
        [type |-> "function",
         function |->
            [name |-> tools[i].name,
             description |-> tools[i].description,
             parameters |-> tools[i].inputSchema]]]
tools_to_openai_functions(tools) ==
    [i \in 1..Len(tools) |->
        [type |-> "function",
         function |->
            [name |-> tools[i].name,
             description |-> tools[i].description,
             \* `tool.inputSchema or {}`: None and the empty dict are falsy
             parameters |-> IF tools[i].inputSchema \in {"None", "{}"}
                            THEN "{}"
                            ELSE tools[i].inputSchema]]]

\* results of process_query
NotConnected == [tag |-> "not_connected", text |-> <<>>]
ErrorResult(e) == [tag |-> "error", text |-> <<e>>]
AnswerResult(content) == [tag |-> "answer", text |-> content]
NoResult == [tag |-> "none", text |-> <<>>]

\* ------------------------------------------------------------------- state
VARIABLES
    mode,             \* "main": main() runs; "api": a caller invokes methods
    pc,               \* position of control
    entry,            \* the method the caller invoked ("main" under main())
    exit_stack,       \* self.exit_stack: the registered exit callbacks
    mcp_session,      \* self.mcp_session: "None" or "ClientSession"
    initialized,      \* the handshake of the session has completed
    acquired,         \* per context manager, how often it was entered
    released,         \* per context manager, how often its exit ran
    cleanups,         \* completed calls of cleanup
    exc,              \* exception that left the running method, or "none"
    query,            \* process_query / select_prompt argument
    city_info,        \* local of select_prompt_and_enhanced_query
    enhanced_query,   \* result of select_prompt_and_enhanced_query
    openai_tools,     \* local of process_query
    messages,         \* local of process_query
    assistant_output, \* local of process_query
    idx,              \* position of the for loop of client.py:132
    response,         \* value process_query returned
    calls,            \* requests issued since the invoked method started
    inflight,         \* requests of the conversation sent and not yet answered
    prior             \* how the previous process_query of this client ended

vars == << mode, pc, entry, exit_stack, mcp_session, initialized, acquired,
           released, cleanups, exc, query, city_info, enhanced_query,
           openai_tools, messages, assistant_output, idx, response, calls,
           inflight, prior >>

sessionVars == << exit_stack, mcp_session, initialized, acquired, released,
                  cleanups >>
queryVars == << query, city_info, enhanced_query, openai_tools, messages,
                assistant_output, idx, response, calls, inflight >>

Managers == {"stdio_client", "ClientSession"}
NoAssistant == AssistantMsg(<<>>, <<>>)

\* A round trip can be answered only over a session whose handshake is done
\* and whose transport and session contexts are both still entered.
SessionReady ==
    /\ mcp_session # "None"
    /\ initialized
    /\ exit_stack = <<"stdio_client", "ClientSession">>

InitCommon ==
    /\ exit_stack = <<>>
    /\ mcp_session = "None"
    /\ initialized = FALSE
    /\ acquired = [m \in Managers |-> 0]
    /\ released = [m \in Managers |-> 0]
    /\ cleanups = 0
    /\ exc = "none"
    /\ query = <<>>
    /\ city_info = <<>>
    /\ enhanced_query = <<>>
    /\ openai_tools = <<>>
    /\ messages = <<>>
    /\ assistant_output = NoAssistant
    /\ idx = 0
    /\ response = NoResult
    /\ calls = <<>>
    /\ inflight = <<>>
    /\ prior = "none"

\* client.py:193-196: main() has built the client and is about to connect
Init ==
    /\ mode = "main"
    /\ entry = "main"
    /\ pc = "connect_stdio"
    /\ InitCommon

\* client.py:23-28: a client just constructed, its methods not yet called
InitAPI ==
    /\ mode = "api"
    /\ entry = "none"
    /\ pc = "idle"
    /\ InitCommon

BaseExceptions == {"KeyboardInterrupt", "CancelledError"}

\* An exception leaves connect_to_mcp_server, print_mcp_resources or
\* chat_loop: under main() the finally clause of client.py:201 runs cleanup
\* (after the print of client.py:200 for an Exception); a direct caller
\* receives it.
EscapeMethodNoFinally(e) ==
    IF mode = "main"
    THEN pc' = "exited" /\ exc' = e /\ entry' = entry
    ELSE pc' = "idle" /\ exc' = e /\ entry' = "none"
EscapeMethod(e) ==
    IF mode = "main"
    THEN pc' = "cleanup" /\ exc' = e /\ entry' = entry
    ELSE pc' = "idle" /\ exc' = e /\ entry' = "none"

\* A method returns normally to `next` under main(), or to the caller.
ReturnTo(next) ==
    IF mode = "main"
    THEN pc' = next /\ entry' = entry
    ELSE pc' = "idle" /\ entry' = "none"

\* Fresh locals of a method invoked with argument q.
FreshLocals(q) ==
    /\ query' = q
    /\ city_info' = <<>>
    /\ enhanced_query' = <<>>
    /\ openai_tools' = <<>>
    /\ messages' = <<>>
    /\ assistant_output' = NoAssistant
    /\ idx' = 0
    /\ response' = NoResult
    /\ calls' = <<>>
    /\ inflight' = <<>>

\* --------------------------------------- connect_to_mcp_server, client.py:30
\* client.py:36-40: enter stdio_client (spawns the subprocess, opens pipes)
ConnectStdio ==
    /\ pc = "connect_stdio"
    /\ \/ /\ exit_stack' = Append(exit_stack, "stdio_client")
          /\ acquired' = [acquired EXCEPT !["stdio_client"] = @ + 1]
          /\ pc' = "connect_session"
          /\ UNCHANGED << entry, exc >>
       \/ /\ EscapeMethod("ConnectionError")
          /\ UNCHANGED << exit_stack, acquired >>
    /\ UNCHANGED << mode, prior, mcp_session, initialized, released, cleanups >>
    /\ UNCHANGED queryVars

\* client.py:43: enter ClientSession and store it in self.mcp_session
ConnectSession ==
    /\ pc = "connect_session"
    /\ \/ /\ exit_stack' = Append(exit_stack, "ClientSession")
          /\ acquired' = [acquired EXCEPT !["ClientSession"] = @ + 1]
          /\ mcp_session' = "ClientSession"
          /\ pc' = "initialize"
          /\ UNCHANGED << entry, exc >>
       \/ /\ EscapeMethod("ConnectionError")
          /\ UNCHANGED << exit_stack, acquired, mcp_session >>
    /\ UNCHANGED << mode, prior, initialized, released, cleanups >>
    /\ UNCHANGED queryVars

\* client.py:46: the protocol handshake
Initialize ==
    /\ pc = "initialize"
    /\ \/ /\ initialized' = TRUE
          /\ ReturnTo("print_mcp_resources")
          /\ exc' = exc
       \/ /\ EscapeMethod("ConnectionError")
          /\ UNCHANGED initialized
    /\ UNCHANGED << mode, prior, exit_stack, mcp_session, acquired, released, cleanups >>
    /\ UNCHANGED queryVars

\* client.py:48-66: four discovery round trips, printed; no state is kept
PrintMcpResources ==
    /\ pc = "print_mcp_resources"
    /\ \/ pc' = "chat_input" /\ UNCHANGED << entry, exc >>
       \/ EscapeMethod("ProtocolError")
    /\ UNCHANGED << mode, prior, prior >>
    /\ UNCHANGED sessionVars
    /\ UNCHANGED queryVars

\* ------------------------------------------------- chat_loop, client.py:165
ExitCommands == { <<"/q">>, <<"/Q">> }
\* str.lower of client.py:173 on the inputs of the model
Lower(inp) == IF inp = <<"/Q">> THEN <<"/q">> ELSE inp
ChatInputs == { <<>> } \cup ExitCommands \cup TypedQueries

\* client.py:170-177: read a line; empty re-prompts, the exit command
\* leaves the loop, anything else is handed to process_query
ChatInput ==
    /\ pc = "chat_input"
    /\ \E inp \in ChatInputs :
         IF inp = <<>>
         THEN UNCHANGED << pc, queryVars >>
         ELSE IF Lower(inp) = <<"/q">>
         THEN pc' = "cleanup" /\ UNCHANGED queryVars
         ELSE pc' = "process_query" /\ FreshLocals(inp)
    /\ UNCHANGED << mode, prior, entry, exc >>
    /\ UNCHANGED sessionVars

\* ---------------------------------------------- process_query, client.py:105
\* An exception raised inside the try block of client.py:110-163.  An
\* Exception is caught at client.py:162 and becomes the returned text; a
\* BaseException passes through to chat_loop, which catches
\* KeyboardInterrupt (client.py:180-182, break) and lets the rest escape.
RaiseInQueryUncaught(e) ==
    /\ pc' = IF mode = "main" THEN "cleanup" ELSE "idle"
    /\ exc' = IF e = "KeyboardInterrupt" THEN "none" ELSE e
    /\ response' = response
    /\ entry' = IF mode = "main" THEN entry ELSE "none"
RaiseInQuery(e) ==
    IF e \notin BaseExceptions
    THEN pc' = "pq_return" /\ response' = ErrorResult(e)
         /\ UNCHANGED << entry, exc >>
    ELSE pc' = "cleanup" /\ response' = response /\ entry' = entry
         /\ exc' = IF e = "KeyboardInterrupt" THEN "none" ELSE e

\* An exception raised inside select_prompt_and_enhanced_query: it escapes
\* to process_query, or to the caller that invoked the method directly.
RaiseInSelect(e) ==
    IF entry = "select_prompt"
    THEN pc' = "select_return" /\ exc' = e /\ UNCHANGED << entry, response >>
    ELSE RaiseInQuery(e)

\* select_prompt_and_enhanced_query returns: process_query goes on to
\* client.py:115, a direct caller gets the value.
AfterSelect ==
    /\ pc' = IF entry = "select_prompt" THEN "select_return" ELSE "list_tools"
    /\ entry' = entry

\* client.py:107-108
ProcessQueryEnter ==
    /\ pc = "process_query"
    /\ IF mcp_session = "None"
       THEN pc' = "pq_return" /\ response' = NotConnected
       ELSE pc' = "select_prompt" /\ response' = response
    /\ UNCHANGED << mode, prior, entry, exc, query, city_info, enhanced_query,
                    openai_tools, messages, assistant_output, idx, calls,
                    inflight >>
    /\ UNCHANGED sessionVars

\* client.py:70-75: the keyword rule; no match returns the query unchanged
SelectPrompt ==
    /\ pc = "select_prompt"
    /\ IF ~RuleMatches(query)
       THEN /\ enhanced_query' = query
            /\ AfterSelect
       ELSE /\ pc' = "read_resource"
            /\ UNCHANGED << entry, enhanced_query >>
    /\ UNCHANGED << mode, prior, exc, query, city_info, openai_tools, messages,
                    assistant_output, idx, response, calls, inflight >>
    /\ UNCHANGED sessionVars

\* One entry of the request log: the operation, its arguments, whether it
\* returned (ok) or raised, and what it returned.  A session round trip is
\* awaited without a timeout (ClientSession is built at client.py:43 with no
\* read timeout, and client.py:78, 83, 94, 138 pass none): when the provider
\* never answers, the await never completes and control stays where it is
\* (pc = "blocked"), with no entry written.  The model request of
\* client.py:119 and 150 is bounded by the timeout of the API client built at
\* client.py:27-28 and ends as a failure.
Call(op, arg, ok, ret) == [op |-> op, arg |-> arg, ok |-> ok, ret |-> ret]

\* client.py:78-80 with server.py:19-22: the round trip fails, or returns
\* what city_tourist returned (the document, or the text that reports that
\* the document could not be read).
ReadResource ==
    /\ pc = "read_resource"
    /\ IF mcp_session = "None"
       THEN RaiseInSelect("AttributeError") /\ UNCHANGED << city_info, calls >>
       ELSE \/ /\ SessionReady
               /\ \E readable \in BOOLEAN :
                     /\ city_info' = city_tourist(readable)
                     /\ calls' = Append(calls,
                           Call("read_resource", resources_uri, TRUE,
                                city_tourist(readable)))
               /\ pc' = "get_prompt"
               /\ UNCHANGED << entry, exc, response >>
            \/ /\ calls' = Append(calls,
                     Call("read_resource", resources_uri, FALSE, <<>>))
               /\ RaiseInSelect("ResourceError")
               /\ UNCHANGED city_info
            \/ /\ SessionReady
               /\ pc' = "blocked"
               /\ UNCHANGED << entry, exc, response, city_info, calls >>
    /\ UNCHANGED << mode, prior, query, enhanced_query, openai_tools, messages,
                    assistant_output, idx, inflight >>
    /\ UNCHANGED sessionVars

\* client.py:83-90 with server.py:45-47
GetPrompt ==
    /\ pc = "get_prompt"
    /\ \/ /\ SessionReady
          /\ LET prompt_text == top_beijing_tourist_spots(city_info) IN
               /\ enhanced_query' = EnhancedQuery(prompt_text, query)
               /\ calls' = Append(calls,
                     Call("get_prompt", <<template_name, city_info>>, TRUE,
                          prompt_text))
          /\ AfterSelect
          /\ UNCHANGED << exc, response >>
       \/ /\ calls' = Append(calls,
                Call("get_prompt", <<template_name, city_info>>, FALSE, <<>>))
          /\ RaiseInSelect("PromptError")
          /\ UNCHANGED enhanced_query
       \/ /\ SessionReady
          /\ pc' = "blocked"
          /\ UNCHANGED << entry, exc, response, enhanced_query, calls >>
    /\ UNCHANGED << mode, prior, query, city_info, openai_tools, messages,
                    assistant_output, idx, inflight >>
    /\ UNCHANGED sessionVars

\* client.py:118: the message sequence a process_query starts with, eq being
\* its effective query and prior_ the way the previous one ended
InitialMessagesCarried(prior_, eq) ==
    IF prior_ = "none" THEN << UserMsg(eq) >>
    ELSE << AssistantMsg(<<prior_>>, <<>>), UserMsg(eq) >>
InitialMessages(prior_, eq) == << UserMsg(eq) >>

\* client.py:115 (tools_to_openai_functions, client.py:92-103) and the
\* initial message sequence of client.py:118
ListTools ==
    /\ pc = "list_tools"
    /\ \/ /\ SessionReady
          /\ calls' = Append(calls, Call("list_tools", <<>>, TRUE, ListedTools))
          /\ openai_tools' = tools_to_openai_functions(ListedTools)
          /\ messages' = InitialMessages(prior, enhanced_query)
          /\ pc' = "model_request"
          /\ UNCHANGED << entry, exc, response >>
       \/ /\ calls' = Append(calls, Call("list_tools", <<>>, FALSE, <<>>))
          /\ RaiseInQuery("ListToolsError")
          /\ UNCHANGED << openai_tools, messages >>
       \/ /\ SessionReady
          /\ pc' = "blocked"
          /\ UNCHANGED << entry, exc, response, openai_tools, messages, calls >>
    /\ UNCHANGED << mode, prior, query, city_info, enhanced_query, assistant_output,
                    idx, inflight >>
    /\ UNCHANGED sessionVars

NumRequests == Cardinality({ i \in 1..Len(calls) : calls[i].op = "model" })

\* client.py:129: the test of the while loop, on the tool calls of the newest
\* assistant message; n is the number of requests made before it.
WhileTestCapped(tool_calls, n) == tool_calls # <<>> /\ n < 1
WhileTest(tool_calls, n) == tool_calls # <<>>

\* Where control goes once the model's message is appended: the while test
\* of client.py:129 enters the tool loop, or falls through to the return of
\* client.py:160.  n is the number of requests made before this one.
AfterResponseDoWhile(tool_calls, n) ==
    IF tool_calls # <<>> THEN "tool_call"
    ELSE IF n = 0 THEN "model_request" ELSE "pq_return"
AfterResponse(tool_calls, n) ==
    IF WhileTest(tool_calls, n) THEN "tool_call" ELSE "pq_return"

\* messages.append of client.py:125, 142 and 156
AppendMsgKeepingNewest(msgs, m) == << msgs[1], m >>
AppendMsg(msgs, m) == Append(msgs, m)

\* client.py:122 and client.py:153: the function schemas sent with request
\* number n + 1, openai_tools being the local of client.py:115
ToolsSentFirstOnly(tools, n) == IF n = 0 THEN tools ELSE <<>>
ToolsSent(tools, n) == tools

\* client.py:160: the value returned once the loop is left, msgs being the
\* message sequence and out the newest assistant message
FinalAnswerFirst(msgs, out) == msgs[2].content
FinalAnswer(msgs, out) == out.content

\* One request sent and not yet answered.
Request(op, arg) == [op |-> op, arg |-> arg]

\* client.py:119-123 and client.py:150-154: the request is sent with the
\* message sequence and the schemas, and its response is waited for
ModelRequest ==
    /\ pc = "model_request"
    /\ NumRequests < MaxRequests
    /\ inflight' = Append(inflight,
          Request("model", <<messages, ToolsSent(openai_tools, NumRequests)>>))
    /\ pc' = "await_model"
    /\ UNCHANGED << mode, prior, entry, exc, query, city_info, enhanced_query,
                    openai_tools, messages, assistant_output, idx, response,
                    calls >>
    /\ UNCHANGED sessionVars

\* client.py:124-125 and client.py:155-156 with the loop test of
\* client.py:129 and the return of client.py:160: the response comes and its
\* message is appended, or the request fails
ModelResponse ==
    /\ pc = "await_model"
    /\ inflight' = Tail(inflight)
    /\ \/ \E content \in AssistantContents, tool_calls \in ToolCallSeqs :
            /\ calls' = Append(calls,
                  Call("model", inflight[1].arg, TRUE,
                       << AssistantMsg(content, tool_calls) >>))
            /\ assistant_output' = AssistantMsg(content, tool_calls)
            /\ messages' = AppendMsg(messages, AssistantMsg(content, tool_calls))
            /\ pc' = AfterResponse(tool_calls, NumRequests)
            /\ IF tool_calls # <<>>
               THEN idx' = 1 /\ response' = response
               ELSE /\ idx' = idx
                    /\ response' = AnswerResult(
                          FinalAnswer(messages', assistant_output'))
            /\ UNCHANGED << entry, exc >>
       \/ /\ calls' = Append(calls,
                Call("model", inflight[1].arg, FALSE, <<>>))
          /\ RaiseInQuery("ModelBackendError")
          /\ UNCHANGED << assistant_output, messages, idx >>
    /\ UNCHANGED << mode, prior, query, city_info, enhanced_query, openai_tools >>
    /\ UNCHANGED sessionVars

ToolOutcomes == {"ok", "isError"}

\* Where control goes after the i-th of n ToolCalls got its result: the for
\* loop of client.py:132 goes on, and the request of client.py:150 follows
\* the loop.
ToolLoopNextInsideLoop(i, n) == "model_request"
ToolLoopNext(i, n) == IF i = n THEN "model_request" ELSE "tool_call"

\* Where control goes once call_tool is invoked for the i-th of n ToolCalls:
\* client.py:138 awaits its result before anything else.
AfterCallToolNoAwait(i, n) == IF i < n THEN "tool_call" ELSE "await_tool"
AfterCallTool(i, n) == "await_tool"

\* client.py:132-138, the first half of one iteration of the for loop: parse
\* the arguments of the ToolCall and invoke the tool
ProcessToolCall ==
    /\ pc = "tool_call"
    /\ LET tool_call == assistant_output.tool_calls[idx] IN
       IF ~JsonParses(tool_call.arguments)
       THEN /\ RaiseInQuery(JsonLoads(tool_call.arguments))
            /\ UNCHANGED << messages, idx, calls, inflight >>
       ELSE LET tool_name == tool_call.name
                tool_args == JsonLoads(tool_call.arguments)
            IN
            /\ inflight' = Append(inflight,
                  Request("call_tool", << tool_call.id, tool_name, tool_args >>))
            /\ pc' = AfterCallTool(idx, Len(assistant_output.tool_calls))
            /\ UNCHANGED << entry, exc, response, messages, idx, calls >>
    /\ UNCHANGED << mode, prior, query, city_info, enhanced_query, openai_tools,
                    assistant_output >>
    /\ UNCHANGED sessionVars

\* client.py:138-146, the second half: the result comes and is appended as
\* the tool message of the ToolCall, the invocation raises, or the provider
\* never answers; after the last ToolCall the next model request follows
\* (client.py:150).
ToolResult ==
    /\ pc = "await_tool"
    /\ LET req == inflight[1] IN
       \/ /\ SessionReady
          /\ \E outcome \in ToolOutcomes :
                /\ calls' = Append(calls,
                      Call("call_tool", req.arg, TRUE, ToolResultText(outcome)))
                /\ messages' = AppendMsg(messages,
                      ToolMsg(ToolResultText(outcome), req.arg[1]))
          /\ inflight' = Tail(inflight)
          /\ idx' = idx + 1
          /\ pc' = ToolLoopNext(idx, Len(assistant_output.tool_calls))
          /\ UNCHANGED << entry, exc, response >>
       \/ /\ calls' = Append(calls, Call("call_tool", req.arg, FALSE, <<>>))
          /\ inflight' = Tail(inflight)
          /\ RaiseInQuery("ToolInvocationError")
          /\ UNCHANGED << messages, idx >>
       \/ /\ SessionReady
          /\ pc' = "blocked"
          /\ UNCHANGED << entry, exc, response, messages, idx, calls,
                          inflight >>
    /\ UNCHANGED << mode, prior, query, city_info, enhanced_query, openai_tools,
                    assistant_output >>
    /\ UNCHANGED sessionVars

\* How a process_query that returns result, after the requests in log, has
\* ended: with the not-connected text, an error text, the answer of the
\* first response, or an answer reached through tool calls.
HowEnded(result, log) ==
    IF result.tag = "answer"
          /\ \E i \in 1..Len(log) : log[i].op = "call_tool"
    THEN "tools"
    ELSE result.tag

\* process_query hands its value back: chat_loop prints it and prompts
\* again (client.py:177-178, 168); a direct caller receives it.
\* The locals of the call end with it.
ProcessQueryReturn ==
    /\ pc = "pq_return"
    /\ ReturnTo("chat_input")
    /\ prior' = HowEnded(response, calls)
    /\ FreshLocals(<<>>)
    /\ UNCHANGED << mode, exc >>
    /\ UNCHANGED sessionVars

\* select_prompt_and_enhanced_query, invoked directly, hands its value or
\* its exception to the caller.
SelectReturn ==
    /\ pc = "select_return"
    /\ pc' = "idle"
    /\ entry' = "none"
    /\ FreshLocals(<<>>)
    /\ UNCHANGED << mode, prior, exc >>
    /\ UNCHANGED sessionVars

\* client.py:92-103 invoked directly: the list_tools round trip and the
\* translation of what it returned
ToolsToOpenaiFunctions ==
    /\ pc = "tools_list"
    /\ pc' = "tools_return"
    /\ IF mcp_session = "None"
       THEN exc' = "AttributeError" /\ UNCHANGED << openai_tools, calls >>
       ELSE \/ /\ SessionReady
               /\ \E tools \in ToolListings :
                     /\ calls' = Append(calls,
                           Call("list_tools", <<>>, TRUE, tools))
                     /\ openai_tools' = tools_to_openai_functions(tools)
               /\ exc' = exc
            \/ /\ calls' = Append(calls, Call("list_tools", <<>>, FALSE, <<>>))
               /\ exc' = "ListToolsError"
               /\ UNCHANGED openai_tools
    /\ UNCHANGED << mode, prior, entry, query, city_info, enhanced_query, messages,
                    assistant_output, idx, response, inflight >>
    /\ UNCHANGED sessionVars

\* tools_to_openai_functions hands its value or its exception to the caller
ToolsReturn ==
    /\ pc = "tools_return"
    /\ pc' = "idle"
    /\ entry' = "none"
    /\ FreshLocals(<<>>)
    /\ UNCHANGED << mode, prior, exc >>
    /\ UNCHANGED sessionVars

\* ---------------------------------------------------- cleanup, client.py:186
\* AsyncExitStack defines neither __bool__ nor __len__, so the test of
\* client.py:188 is true for every stack, empty or not.
ExitStackTruthy(stack) == TRUE

\* AsyncExitStack.aclose (client.py:189) pops every callback, newest first,
\* and runs it: what is left on the stack afterwards.
AfterAcloseKept(stack) == stack
AfterAclose(stack) == <<>>

TimesOn(stack, m) == Cardinality({ i \in 1..Len(stack) : stack[i] = m })

\* client.py:186-190; main() then ends (client.py:202), a direct caller
\* gets control back.
Cleanup ==
    /\ pc = "cleanup"
    /\ IF ExitStackTruthy(exit_stack)
       THEN /\ released' =
                 [m \in Managers |-> released[m] + TimesOn(exit_stack, m)]
            /\ exit_stack' = AfterAclose(exit_stack)
       ELSE UNCHANGED << released, exit_stack >>
    /\ cleanups' = cleanups + 1
    /\ ReturnTo("exited")
    /\ UNCHANGED << mode, prior, mcp_session, initialized, acquired, exc >>
    /\ UNCHANGED queryVars

\* ------------------------------------------------------- external interrupt
ConnectPoints == {"connect_stdio", "connect_session", "initialize",
                  "print_mcp_resources"}
QueryPoints == {"process_query", "select_prompt", "read_resource",
                "get_prompt", "list_tools", "model_request", "await_model",
                "tool_call", "await_tool", "blocked", "pq_return"}

\* Ctrl-C while main() runs (client.py:193-202, asyncio.run of
\* client.py:206): KeyboardInterrupt or the cancellation of the main task is
\* raised where control is.  Neither is an Exception, so client.py:162, 183
\* and 199 do not catch it; client.py:180 catches KeyboardInterrupt inside
\* chat_loop and breaks.  Raised while aclose awaits a callback, it is kept
\* as the pending exception and the callbacks still run.
Interrupt ==
    /\ mode = "main"
    /\ \E e \in BaseExceptions :
         \/ /\ pc \in ConnectPoints
            /\ pc' = "cleanup"
            /\ exc' = e
            /\ UNCHANGED queryVars
         \/ /\ pc \in QueryPoints \cup {"chat_input"}
            /\ pc' = "cleanup"
            /\ exc' = IF e = "KeyboardInterrupt" THEN "none" ELSE e
            /\ FreshLocals(<<>>)
         \/ /\ pc = "cleanup"
            /\ exit_stack # <<>>
            /\ exc' = e
            /\ pc' = pc
            /\ UNCHANGED queryVars
    /\ UNCHANGED << mode, prior, entry >>
    /\ UNCHANGED sessionVars

\* --------------------------------------------- a caller of the client's API
\* connect_to_mcp_server is called at most once per client.
CallConnect ==
    /\ pc = "idle"
    /\ acquired = [m \in Managers |-> 0]
    /\ cleanups = 0
    /\ pc' = "connect_stdio"
    /\ entry' = "connect"
    /\ exc' = "none"
    /\ UNCHANGED << mode, prior, prior >>
    /\ UNCHANGED sessionVars
    /\ UNCHANGED queryVars

CallProcessQuery ==
    /\ pc = "idle"
    /\ \E q \in TypedQueries : FreshLocals(q)
    /\ pc' = "process_query"
    /\ entry' = "process_query"
    /\ exc' = "none"
    /\ UNCHANGED << mode, prior, prior >>
    /\ UNCHANGED sessionVars

CallSelectPrompt ==
    /\ pc = "idle"
    /\ \E q \in AllQueries : FreshLocals(q)
    /\ pc' = "select_prompt"
    /\ entry' = "select_prompt"
    /\ exc' = "none"
    /\ UNCHANGED << mode, prior, prior >>
    /\ UNCHANGED sessionVars

CallToolsToOpenaiFunctions ==
    /\ pc = "idle"
    /\ FreshLocals(<<>>)
    /\ pc' = "tools_list"
    /\ entry' = "tools_to_openai_functions"
    /\ exc' = "none"
    /\ UNCHANGED << mode, prior, prior >>
    /\ UNCHANGED sessionVars

CallCleanup ==
    /\ pc = "idle"
    /\ cleanups < MaxCleanups
    /\ pc' = "cleanup"
    /\ entry' = "cleanup"
    /\ exc' = "none"
    /\ UNCHANGED << mode, prior, prior >>
    /\ UNCHANGED sessionVars
    /\ UNCHANGED queryVars

\* ----------------------------------------------------------- specifications
Methods ==
    \/ ConnectStdio
    \/ ConnectSession
    \/ Initialize
    \/ ProcessQueryEnter
    \/ SelectPrompt
    \/ ReadResource
    \/ GetPrompt
    \/ ListTools
    \/ ModelRequest
    \/ ModelResponse
    \/ ProcessToolCall
    \/ ToolResult
    \/ ProcessQueryReturn
    \/ Cleanup

\* main() of client.py:193-202
Next ==
    \/ Methods
    \/ PrintMcpResources
    \/ ChatInput
    \/ Interrupt

Spec == Init /\ [][Next]_vars

\* the methods of one MCPClient, invoked one after the other by a caller
NextAPI ==
    \/ Methods
    \/ CallConnect
    \/ CallProcessQuery
    \/ CallSelectPrompt
    \/ SelectReturn
    \/ CallToolsToOpenaiFunctions
    \/ ToolsToOpenaiFunctions
    \/ ToolsReturn
    \/ CallCleanup

SpecAPI == InitAPI /\ [][NextAPI]_vars

TypeOK ==
    /\ mode \in {"main", "api"}
    /\ mcp_session \in {"None", "ClientSession"}
    /\ initialized \in BOOLEAN
    /\ idx \in 0..(MaxToolCalls + 1)
    /\ Len(messages) <= 1 + MaxRequests * (1 + MaxToolCalls)
    /\ Len(inflight) <= MaxToolCalls
    /\ prior \in {"none", "not_connected", "error", "answer", "tools"}

\* ------------------------------------------------------------------ claims
\* Position of the newest assistant message of msgs (0 when there is none).
LastAssistantPos(msgs) ==
    LET A == { i \in 1..Len(msgs) : msgs[i].role = "assistant" } IN
    IF A = {} THEN 0 ELSE CHOOSE i \in A : \A j \in A : j <= i

\* The messages appended after the newest assistant message of msgs.
TurnResults(msgs) == SubSeq(msgs, LastAssistantPos(msgs) + 1, Len(msgs))

\* The i-th message after the newest assistant message is the tool message
\* of its i-th ToolCall, and there are no others.
ResultsAnswerCalls(msgs) ==
    LET tcs == msgs[LastAssistantPos(msgs)].tool_calls
        res == TurnResults(msgs)
    IN /\ Len(res) = Len(tcs)
       /\ \A k \in 1..Len(tcs) :
            res[k].role = "tool" /\ res[k].tool_call_id = tcs[k].id

ModelCalls == { i \in 1..Len(calls) : calls[i].op = "model" }
ToolInvocations == { i \in 1..Len(calls) : calls[i].op = "call_tool" }

\* C1: a call_tool that raises yields a tool message for its ToolCall that
\* carries the error description, the later ToolCalls of the same assistant
\* message are still invoked, and the conversation goes on with the next
\* model request (process_query does not return on the failure).
C1_FailedToolCallIsAnswered ==
    \A i \in ToolInvocations :
        ~calls[i].ok =>
            /\ \E k \in 1..Len(messages) :
                 /\ messages[k].role = "tool"
                 /\ messages[k].tool_call_id = calls[i].arg[1]
                 /\ messages[k].content = <<"ToolInvocationError">>
            /\ pc = "pq_return" =>
                 \E j \in ModelCalls : j > i

\* C2: a ToolCall whose arguments text does not parse gets a tool message
\* that reports the parse error; the turn is not aborted, so process_query
\* never returns with such a ToolCall unanswered.
C2_ParseFailureIsAnswered ==
    pc = "pq_return" =>
        \A k \in 1..Len(assistant_output.tool_calls) :
            ~JsonParses(assistant_output.tool_calls[k].arguments) =>
                /\ Len(TurnResults(messages)) >= k
                /\ TurnResults(messages)[k] =
                     ToolMsg(<<"JSONDecodeError">>,
                             assistant_output.tool_calls[k].id)

\* C3: when a turn is over (the next model request is due, or process_query
\* returns), the tool messages appended in it are as many as the ToolCalls
\* of the preceding assistant message, the i-th carrying the i-th id.
C3_ResultsMatchCallsEveryTurn ==
    (pc \in {"model_request", "pq_return"} /\ LastAssistantPos(messages) > 0)
        => ResultsAnswerCalls(messages)

\* C4: every model request after the first is sent with a message sequence
\* in which each ToolCall of the newest assistant message has exactly one
\* tool message after it, in call order.
C4_RequestSentAfterAllResults ==
    \A i \in ModelCalls :
        Len(calls[i].arg[1]) > 1 => ResultsAnswerCalls(calls[i].arg[1])

\* a second model request went out after a turn of two ToolCalls
C4_Witness ==
    \E i \in ModelCalls :
        /\ Len(calls[i].arg[1]) > 1
        /\ Len(calls[i].arg[1][LastAssistantPos(calls[i].arg[1])].tool_calls) = 2

\* The augmentation of the running query failed: read_resource or
\* get_prompt raised, or the provider could not read the document.
AugmentationFailed ==
    \E i \in 1..Len(calls) :
        /\ calls[i].op \in {"read_resource", "get_prompt"}
        /\ \/ ~calls[i].ok
           \/ calls[i].op = "read_resource"
                /\ calls[i].ret = _read_file_content(FALSE)

\* C5: when augmentation fails, also because the provider cannot read the
\* document, no model request is sent for the query and process_query
\* returns a failure result.
C5_AugmentationFailureIsFatal ==
    AugmentationFailed =>
        /\ ModelCalls = {}
        /\ pc = "pq_return" => response.tag = "error"

\* C6: nothing is released twice, and when main() has ended, on whichever
\* path, everything connect_to_mcp_server acquired has been released.
C6_ReleasedExactlyOnce ==
    /\ \A m \in Managers : released[m] <= 1
    /\ pc = "exited" => \A m \in Managers : released[m] = acquired[m]

\* main() ended by an interrupt after both contexts were entered
C6_Witness ==
    /\ pc = "exited"
    /\ exc = "CancelledError"
    /\ \A m \in Managers : acquired[m] = 1 /\ released[m] = 1

\* C7: once a first cleanup has completed, no step releases anything again,
\* nothing is ever released more than once, and cleanup does not raise.
C7_CleanupIsIdempotent ==
    [][ /\ cleanups >= 1 => released' = released
        /\ \A m \in Managers : released'[m] <= 1
        /\ entry = "cleanup" => exc' = "none" ]_vars

\* cleanup was called twice on a connected client
C7_Witness ==
    /\ cleanups = 2
    /\ pc = "idle"
    /\ \A m \in Managers : released[m] = 1

\* the step issued a model request that failed
ModelRequestFails ==
    /\ Len(calls') = Len(calls) + 1
    /\ calls'[Len(calls')].op = "model"
    /\ ~calls'[Len(calls')].ok

\* C8: a failing model request makes process_query return the failure as
\* its result without raising and without touching the session, and from
\* that result chat_loop goes back to its prompt with the session ready.
C8_ModelFailureEndsOnlyTheQuery ==
    [][ /\ ModelRequestFails =>
              /\ pc' = "pq_return"
              /\ response' = ErrorResult("ModelBackendError")
              /\ exc' = "none"
              /\ UNCHANGED sessionVars
        /\ (pc = "pq_return" /\ response.tag = "error" /\ pc' # "cleanup") =>
              /\ pc' = "chat_input"
              /\ exc' = "none"
              /\ UNCHANGED sessionVars
              /\ SessionReady' ]_vars

\* the model request of a later turn failed
C8_Witness ==
    /\ pc = "pq_return"
    /\ response = ErrorResult("ModelBackendError")
    /\ Cardinality(ModelCalls) = 2

\* the two predicates of the spec, on the characters of the query
HasLocality(q) == \E i \in 1..(Len(q) - 1) : q[i] = "bei" /\ q[i + 1] = "jing"
HasTopic(q) ==
    \E i \in 1..(Len(q) - 1) :
        \/ q[i] = "jing3" /\ q[i + 1] = "dian"
        \/ q[i] = "lv" /\ q[i + 1] = "you"

AugmentationDone ==
    \/ pc = "select_return" /\ exc = "none"
    \/ pc = "list_tools"

\* C9: for a query that lacks the locality keyword or lacks both topic
\* keywords, augmentation returns the query unchanged, does not raise and
\* issues neither read_resource nor get_prompt.
C9_NoMatchIsIdentity ==
    (pc \in {"select_return", "list_tools"}
        /\ ~(HasLocality(query) /\ HasTopic(query)))
    => /\ enhanced_query = query
       /\ exc = "none"
       /\ calls = <<>>

\* a query with the locality keyword only was passed through
C9_Witness ==
    /\ pc = "select_return"
    /\ HasLocality(query)
    /\ ~HasTopic(query)
    /\ Len(query) = 4

IsAugmentationCall(c) == c.op \in {"read_resource", "get_prompt"}

\* C10: for a query with both keywords, a completed augmentation has issued
\* one read_resource for the fixed URI, then one get_prompt for
\* top_beijing_tourist_spots with the content read as city_info, and the
\* effective query is the rendered prompt, the separator, the query; at no
\* time has a query issued a second read_resource or get_prompt, or a
\* get_prompt that no answered read_resource precedes.
C10_MatchIsAugmented ==
    /\ LET aug == SelectSeq(calls, IsAugmentationCall) IN
         /\ Len(aug) <= 2
         /\ Len(aug) >= 1 => aug[1].op = "read_resource"
         /\ Len(aug) = 2 => aug[2].op = "get_prompt" /\ aug[1].ok
    /\ (AugmentationDone /\ HasLocality(query) /\ HasTopic(query)) =>
         ( /\ Len(calls) = 2
           /\ calls[1].op = "read_resource"
           /\ calls[1].arg = "city-tourist-doc://Beijing/city-tourist.md"
           /\ calls[2].op = "get_prompt"
           /\ calls[2].arg = << "top_beijing_tourist_spots", calls[1].ret >>
           /\ enhanced_query = calls[2].ret \o <<"SEP">> \o query
           /\ calls[2].ret = <<"TPL">> \o calls[1].ret )

\* a matching query was augmented with the document
C10_Witness ==
    /\ pc = "select_return"
    /\ exc = "none"
    /\ HasLocality(query)
    /\ HasTopic(query)
    /\ calls[1].ret = <<"doc">>

\* The first answer of the model to the running query, when it has come.
FirstModelCall == CHOOSE i \in ModelCalls : \A j \in ModelCalls : i <= j

\* C11: once the first model response has come without tool calls, the query
\* has sent that one model request and no call_tool, the tool loop was not
\* entered, and process_query returns.
C11_NoToolCallsOneRequest ==
    (/\ ModelCalls # {}
     /\ calls[FirstModelCall].ok
     /\ calls[FirstModelCall].ret[1].tool_calls = <<>>)
    => ( /\ Cardinality(ModelCalls) = 1
         /\ ToolInvocations = {}
         /\ idx = 0
         /\ pc = "pq_return"
         /\ response.tag = "answer" )

\* a query answered by the first model response
C11_Witness ==
    /\ pc = "pq_return"
    /\ Len(messages) = 2
    /\ messages[2].role = "assistant"
    /\ messages[2].tool_calls = <<>>
    /\ Cardinality(ModelCalls) = 1

\* C12: the function schemas built from a tool list are as many as the
\* tools, in the listed order, the i-th carrying the i-th tool's name and
\* description; its parameters are the tool's input schema, and the empty
\* object when the tool has none.
C12_SchemaPerToolInOrder ==
    \A c \in 1..Len(calls) :
        (calls[c].op = "list_tools" /\ calls[c].ok) =>
            LET tools == calls[c].ret IN
            /\ Len(openai_tools) = Len(tools)
            /\ \A i \in 1..Len(tools) :
                 /\ openai_tools[i].type = "function"
                 /\ openai_tools[i].function.name = tools[i].name
                 /\ openai_tools[i].function.description = tools[i].description
                 /\ openai_tools[i].function.parameters # "None"
                 /\ openai_tools[i].function.parameters =
                      IF tools[i].inputSchema = "None" THEN "{}"
                      ELSE tools[i].inputSchema

\* two different tools were translated, the first without input schema
C12_Witness ==
    /\ pc = "tools_return"
    /\ exc = "none"
    /\ Len(openai_tools) = 2
    /\ calls[1].ret[1].inputSchema = "None"
    /\ calls[1].ret[2].inputSchema = "schema_location"
    /\ calls[1].ret[1].name # calls[1].ret[2].name
    /\ openai_tools[1].function.parameters = "{}"

\* C13: process_query never stays blocked on a request that is not
\* answered: whenever it waits for such a response, a step of the client
\* itself (the expiry of a timeout, failing the operation) is possible.
C13_PendingOperationIsEnded ==
    pc = "blocked" => ENABLED Methods

\* C14: a model response without tool calls is the last request of the
\* query: it is the last message of the sequence, process_query is returning,
\* and what it returns is exactly the content of that message.
C14_FinalAnswerIsLastMessage ==
    \A i \in ModelCalls :
        (calls[i].ok /\ calls[i].ret[1].tool_calls = <<>>) =>
            /\ i = Len(calls)
            /\ pc = "pq_return"
            /\ messages[Len(messages)] = calls[i].ret[1]
            /\ response = AnswerResult(calls[i].ret[1].content)

\* the answer came in the second response, after a turn of tool calls whose
\* assistant message had another content
C14_Witness ==
    /\ pc = "pq_return"
    /\ Cardinality(ModelCalls) = 2
    /\ ToolInvocations # {}
    /\ messages[2].tool_calls # <<>>
    /\ messages[2].content = <<"draft">>
    /\ messages[Len(messages)].role = "assistant"
    /\ response = AnswerResult(<<"answer">>)

\* Every model response of the running query carried tool calls, and every
\* tool invocation returned.
AlwaysToolCalls ==
    /\ ModelCalls # {}
    /\ \A i \in ModelCalls : calls[i].ok /\ calls[i].ret[1].tool_calls # <<>>
    /\ \A i \in ToolInvocations : calls[i].ok

\* C15: while every model response carries tool calls and the tools succeed,
\* process_query has no answer to return, however many requests it has made:
\* it is in the tool loop or about to send the next request, and it leaves
\* only through a failure (arguments that do not parse).
C15_NoTurnBound ==
    AlwaysToolCalls =>
        /\ response.tag # "answer"
        /\ pc \in {"tool_call", "await_tool", "model_request", "await_model",
                  "blocked", "pq_return"}
        /\ (pc = "pq_return" =>
              /\ response.tag = "error"
              /\ \E tc \in ToolCalls :
                    /\ ~JsonParses(tc.arguments)
                    /\ response = ErrorResult(JsonLoads(tc.arguments)))

\* as many requests as the model explores have been answered with tool
\* calls, all invoked, and one more request is about to be sent
C15_Witness ==
    /\ AlwaysToolCalls
    /\ pc = "model_request"
    /\ NumRequests = MaxRequests
    /\ Cardinality(ToolInvocations) >= MaxRequests

ListToolsCalls == { i \in 1..Len(calls) : calls[i].op = "list_tools" }

\* C16: a query asks for the tool list at most once, and once it sends model
\* requests it has asked exactly once, before the first of them; every model
\* request carries the schemas built from that one listing.
C16_SchemaFetchedOnceAndReused ==
    /\ Cardinality(ListToolsCalls) <= 1
    /\ \A i \in ModelCalls :
         /\ Cardinality(ListToolsCalls) = 1
         /\ \A k \in ListToolsCalls :
              /\ k < i
              /\ calls[k].ok
              /\ calls[i].arg[2] = tools_to_openai_functions(calls[k].ret)
              /\ calls[i].arg[2] = calls[FirstModelCall].arg[2]

\* two model requests of one query, a turn of tool calls between them
C16_Witness ==
    /\ Cardinality(ModelCalls) = 2
    /\ ToolInvocations # {}
    /\ \A i \in ModelCalls : calls[i].arg[2] # <<>>

IsPrefix(s, t) == Len(s) <= Len(t) /\ SubSeq(t, 1, Len(s)) = s

\* a step of the conversation of one process_query: from its first request
\* until it returns
ConversationStep ==
    /\ pc \in {"model_request", "await_model", "tool_call", "await_tool"}
    /\ pc' \in {"model_request", "await_model", "tool_call", "await_tool",
               "blocked", "pq_return"}

\* The messages of every model request so far are a prefix of the current
\* sequence and of those of every later request, and begin with the user
\* message of the effective query.
RequestsArePrefixes ==
    /\ \A i \in ModelCalls :
         /\ IsPrefix(calls[i].arg[1], messages)
         /\ calls[i].arg[1][1] = UserMsg(enhanced_query)
         /\ \A j \in ModelCalls :
              i < j => /\ IsPrefix(calls[i].arg[1], calls[j].arg[1])
                       /\ Len(calls[i].arg[1]) < Len(calls[j].arg[1])
    /\ messages # <<>> => messages[1] = UserMsg(enhanced_query)

\* C17: inside one process_query every step keeps the message sequence as a
\* prefix of the new one; the messages of a model request are a prefix of
\* those of every later request and of the current sequence; and the first
\* message is the user message with the effective query.
C17_MessagesAppendOnly ==
    [][ /\ ConversationStep => IsPrefix(messages, messages')
        /\ RequestsArePrefixes' ]_vars

\* a second request was sent with the first request's message, the
\* assistant message and the tool results after it
C17_Witness ==
    /\ Cardinality(ModelCalls) = 2
    /\ \E i, j \in ModelCalls :
         /\ i < j
         /\ Len(calls[i].arg[1]) = 1
         /\ Len(calls[j].arg[1]) >= 3
    /\ Len(messages) >= 4

\* The newest model response of the running query (0 when there is none).
LastModelCall ==
    IF ModelCalls = {} THEN 0
    ELSE CHOOSE i \in ModelCalls : \A j \in ModelCalls : j <= i

\* C18: a conversation has at most one request in flight, and only while it
\* waits for it; the tool invocations made since the newest model response
\* are those of its ToolCalls, first to last, and a tool is invoked only
\* when every earlier invocation of the turn has returned.
C18_OneRequestInFlight ==
    /\ Len(inflight) <= 1
    /\ inflight # <<>> => pc \in {"await_model", "await_tool", "blocked"}
    /\ pc \in {"await_model", "await_tool"} => Len(inflight) = 1
    /\ pc = "await_model" => inflight[1].op = "model"
    /\ LastModelCall # 0 =>
         LET m == LastModelCall
             tcs == IF calls[m].ok THEN calls[m].ret[1].tool_calls ELSE <<>>
         IN /\ Len(calls) - m <= Len(tcs)
            /\ \A k \in (m + 1)..Len(calls) :
                 /\ calls[k].op = "call_tool"
                 /\ calls[k].arg[1] = tcs[k - m].id
                 /\ calls[k].arg[2] = tcs[k - m].name
            /\ pc = "await_tool" =>
                 /\ inflight[1].op = "call_tool"
                 /\ Len(calls) - m < Len(tcs)
                 /\ inflight[1].arg[1] = tcs[Len(calls) - m + 1].id
                 /\ idx = Len(calls) - m + 1

\* the second ToolCall of a turn is being invoked, the first has returned
C18_Witness ==
    /\ pc = "await_tool"
    /\ idx = 2
    /\ Len(inflight) = 1
    /\ assistant_output.tool_calls[1].id # assistant_output.tool_calls[2].id
    /\ inflight[1].arg[1] = assistant_output.tool_calls[2].id
    /\ calls[Len(calls)].op = "call_tool"
    /\ calls[Len(calls)].arg[1] = assistant_output.tool_calls[1].id

\* The effective query of the running process_query, once
\* select_prompt_and_enhanced_query has returned it.
EffectiveQuery ==
    IF RuleMatches(query)
    THEN EnhancedQuery(top_beijing_tourist_spots(city_info), query)
    ELSE query

\* C19: whatever the previous process_query of the client did, the first
\* model request of a query is sent with exactly one message, the user
\* message with the effective query of this query.
C19_NoStateAcrossQueries ==
    /\ (pc = "await_model" /\ ModelCalls = {}) =>
          inflight[1].arg[1] = << UserMsg(EffectiveQuery) >>
    /\ ModelCalls # {} =>
          calls[FirstModelCall].arg[1] = << UserMsg(EffectiveQuery) >>

\* the first request of a query that follows one answered through tools
C19_Witness ==
    /\ prior = "tools"
    /\ ModelCalls # {}
    /\ calls[FirstModelCall].arg[1] = << UserMsg(query) >>
    /\ query # <<>>

\* C20: process_query sends requests only while the session is ready; in
\* any other state of the session it returns the not-connected text and has
\* attempted no request.
C20_RequestsOnlyWhileReady ==
    (entry \in {"main", "process_query"} /\ pc \in QueryPoints) =>
        /\ (calls # <<>> \/ inflight # <<>>) => SessionReady
        /\ (pc = "pq_return" /\ ~SessionReady) => response = NotConnected

====
